---- MODULE Spec2Model ----
(***************************************************************************)
(* Model of the kedro-ibis-bigquery data_processing pipeline:              *)
(*   pipelines/data_processing/nodes.py     data_processing(itt, itrt)     *)
(*   pipelines/data_processing/pipeline.py  create_pipeline()              *)
(*                                                                         *)
(* A nullable value is a sequence of length <= 1: Null is <<>> and a       *)
(* present value v is <<v>>.  A text value is the sequence of its          *)
(* characters.  A date is <<year, month, day>>.  An input table is a       *)
(* record of its column names and the sequence of its rows; a relation     *)
(* produced by the query (row order unspecified) is a bag of rows.         *)
(***************************************************************************)
EXTENDS Integers, Sequences, FiniteSets, Bags

VARIABLES catalog, pipe, pc, calls, itt, itrt, trends, rising_trends,
          result, returned, error

vars == <<catalog, pipe, pc, calls, itt, itrt, trends, rising_trends,
          result, returned, error>>

-----------------------------------------------------------------------------
(* Bounds of the model *)

MaxTrendRows == 2
MaxRisingRows == 2
MaxRowsMissing == 1

-----------------------------------------------------------------------------
(* Nullable values and three-valued logic *)

Null == <<>>
Some(v) == <<v>>
Val(x) == x[1]

\* Variant: a null-safe comparison (IS NOT DISTINCT FROM), null equal to null
Eq3_nullSafe(a, b) == IF a = b THEN "true" ELSE "false"

\* ibis `a == b`, compiled to SQL `a = b`: unknown when either side is null
Eq3(a, b) == IF a = Null \/ b = Null THEN "unknown"
             ELSE IF a = b THEN "true" ELSE "false"

And3(p, q) == IF p = "false" \/ q = "false" THEN "false"
              ELSE IF p = "unknown" \/ q = "unknown" THEN "unknown"
              ELSE "true"

-----------------------------------------------------------------------------
(* week.cast('string').left(7) *)

Digits == <<"0", "1", "2", "3", "4", "5", "6", "7", "8", "9">>

DigitChar(d) == Digits[d + 1]

\* the decimal rendering of n, zero-padded to w characters
RECURSIVE Pad(_, _)
Pad(n, w) == IF w = 0 THEN <<>>
             ELSE Append(Pad(n \div 10, w - 1), DigitChar(n % 10))

\* CAST(week AS STRING) of a date: "YYYY-MM-DD"; null stays null
CastString(week) ==
    IF week = Null THEN Null
    ELSE LET d == Val(week)
         IN Some(Pad(d[1], 4) \o <<"-">> \o Pad(d[2], 2) \o <<"-">> \o Pad(d[3], 2))

Min(a, b) == IF a < b THEN a ELSE b

\* LEFT(s, n): the first n characters; null stays null
Left(s, n) == IF s = Null THEN Null
              ELSE Some(SubSeq(Val(s), 1, Min(n, Len(Val(s)))))

MonthLen == 7

\* Variant: the cast without the truncation to seven characters
MonthOf_wholeDate(week) == CastString(week)

MonthOf(week) == Left(CastString(week), MonthLen)

-----------------------------------------------------------------------------
(* mean() *)

RECURSIVE GCD(_, _)
GCD(a, b) == IF b = 0 THEN a ELSE GCD(b, a % b)

RECURSIVE SumNonNull(_)
SumNonNull(s) == IF s = <<>> THEN 0
                 ELSE (IF Head(s) = Null THEN 0 ELSE Val(Head(s))) + SumNonNull(Tail(s))

RECURSIVE CountNonNull(_)
CountNonNull(s) == IF s = <<>> THEN 0
                   ELSE (IF Head(s) = Null THEN 0 ELSE 1) + CountNonNull(Tail(s))

\* Variant: the first non-null value in row order instead of the mean
Mean_first(s) ==
    LET nn == SelectSeq(s, LAMBDA v : v # Null)
    IN IF nn = <<>> THEN Null ELSE Some([num |-> Val(nn[1]), den |-> 1])

\* AVG over a column: nulls are skipped, no non-null value gives null;
\* the mean is the reduced fraction num/den
Mean(s) ==
    LET n == CountNonNull(s)
        t == SumNonNull(s)
        g == GCD(t, n)
    IN IF n = 0 THEN Null ELSE Some([num |-> t \div g, den |-> n \div g])

-----------------------------------------------------------------------------
(* The relational steps of data_processing *)

ColumnsA == {"country_name", "week", "term", "score"}
ColumnsB == {"country_name", "week", "term", "percent_gain"}

\* Variant: no filter on score
FilterScoreNotNull_keepAll(rows) == rows

\* itt.filter(itt.score.notnull())
FilterScoreNotNull(rows) == SelectSeq(rows, LAMBDA r : r.score # Null)

\* .mutate(month=week.cast('string').left(7)): every row gains the column month
MutateMonth(rows) ==
    [i \in 1..Len(rows) |->
        [c \in (DOMAIN rows[i]) \cup {"month"} |->
            IF c = "month" THEN MonthOf(rows[i].week) ELSE rows[i][c]]]

\* the grouping key of .group_by([country_name, 'month', term])
GroupKey(r) == <<r.country_name, r.month, r.term>>

\* Variant: the aggregate ranges over every row, whatever its group
ColumnOfGroup_allRows(rows, k, col) == [i \in 1..Len(rows) |-> rows[i][col]]

\* the values of column col in the rows of group k (GROUP BY puts nulls together)
ColumnOfGroup(rows, k, col) ==
    LET g == SelectSeq(rows, LAMBDA r : GroupKey(r) = k)
    IN [i \in 1..Len(g) |-> g[i][col]]

\* Variant: no grouping, one aggregate row per input row
GroupMean_perRow(rows, col, name) ==
    LET rec(i) == [c \in {"country_name", "month", "term", name} |->
                      CASE c = "country_name" -> rows[i].country_name
                        [] c = "month" -> rows[i].month
                        [] c = "term" -> rows[i].term
                        [] OTHER -> Mean(<<rows[i][col]>>)]
    IN [o \in {rec(i) : i \in 1..Len(rows)} |->
            Cardinality({i \in 1..Len(rows) : rec(i) = o})]

\* .group_by(...).aggregate(name=col.mean()): one row per group
GroupMean(rows, col, name) ==
    LET keys == {GroupKey(rows[i]) : i \in 1..Len(rows)}
    IN SetToBag({[c \in {"country_name", "month", "term", name} |->
                    CASE c = "country_name" -> k[1]
                      [] c = "month" -> k[2]
                      [] c = "term" -> k[3]
                      [] OTHER -> Mean(ColumnOfGroup(rows, k, col))] : k \in keys})

\* nodes.py lines 6-10
Trends(t) == GroupMean(MutateMonth(FilterScoreNotNull(t.rows)), "score", "avg_score")

\* nodes.py lines 12-16
RisingTrends(t) == GroupMean(MutateMonth(t.rows), "percent_gain", "avg_percent_gain")

\* Variant: the predicate on month left out
JoinPredicate_noMonth(l, r) ==
    And3(Eq3(l.country_name, r.country_name), Eq3(l.term, r.term))

\* the three join predicates, taken together
JoinPredicate(l, r) ==
    And3(And3(Eq3(l.country_name, r.country_name), Eq3(l.month, r.month)),
         Eq3(l.term, r.term))

RECURSIVE SumFn(_, _)
SumFn(S, f) == IF S = {} THEN 0
               ELSE LET x == CHOOSE y \in S : TRUE
                    IN f[x] + SumFn(S \ {x}, f)

\* Variant: an inner join, which drops the left rows without a match
LeftJoin_inner(L, R) ==
    LET matched == {p \in BagToSet(L) \X {Some(r) : r \in BagToSet(R)} :
                        And3(And3(Eq3(p[1].country_name, Val(p[2]).country_name),
                                  Eq3(p[1].month, Val(p[2]).month)),
                             Eq3(p[1].term, Val(p[2]).term)) = "true"}
    IN [p \in matched |-> CopiesIn(p[1], L) * CopiesIn(Val(p[2]), R)]

\* trends.left_join(rising_trends, predicates): the bag of <<left row, right row>>
\* pairs, the right row null for a left row that no right row matches
LeftJoin(L, R) ==
    LET ls == BagToSet(L)
        rs == BagToSet(R)
        Matches(l) == {r \in rs : JoinPredicate(l, r) = "true"}
        matched == {p \in ls \X {Some(r) : r \in rs} :
                        JoinPredicate(p[1], Val(p[2])) = "true"}
        unmatched == {<<l, Null>> : l \in {x \in ls : Matches(x) = {}}}
    IN [p \in matched \cup unmatched |->
            CopiesIn(p[1], L) * (IF p[2] = Null THEN 1 ELSE CopiesIn(Val(p[2]), R))]

\* the selection [country_name, month, term.name('google_trend'), avg_score,
\* avg_percent_gain] of one joined pair
ProjectRow(p) ==
    [country_name |-> p[1].country_name,
     month |-> p[1].month,
     google_trend |-> p[1].term,
     avg_score |-> p[1].avg_score,
     avg_percent_gain |-> IF p[2] = Null THEN Null ELSE Val(p[2]).avg_percent_gain]

\* the projection of a joined relation; equal projected rows add up
Project(J) ==
    LET ps == BagToSet(J)
    IN [o \in {ProjectRow(p) : p \in ps} |->
            SumFn({p \in ps : ProjectRow(p) = o}, J)]

\* nodes.py lines 5-33 as a whole, on tables that have every column
data_processing(a, b) == Project(LeftJoin(Trends(a), RisingTrends(b)))

-----------------------------------------------------------------------------
(* The pipeline *)

\* Variant: the two input names in the other order
create_pipeline_swapped ==
    << [func |-> "data_processing",
        inputs |-> <<"international_top_rising_terms", "international_top_terms">>,
        outputs |-> "preprocessed_data",
        name |-> "preprocess_data"] >>

create_pipeline ==
    << [func |-> "data_processing",
        inputs |-> <<"international_top_terms", "international_top_rising_terms">>,
        outputs |-> "preprocessed_data",
        name |-> "preprocess_data"] >>

-----------------------------------------------------------------------------
(* The input tables the model explores *)

Date1 == <<2024, 3, 1>>
Date2 == <<2024, 3, 8>>
Date3 == <<2024, 4, 5>>

\* (country_name, week, term) of the rows: two weeks of one month, a week of
\* another month, and a null in each key column
SampleKeys ==
    { <<Some("US"), Some(Date1), Some("cats")>>,
      <<Some("US"), Some(Date2), Some("cats")>>,
      <<Some("US"), Some(Date3), Some("cats")>>,
      <<Null, Some(Date1), Some("cats")>>,
      <<Some("US"), Null, Some("cats")>>,
      <<Some("US"), Some(Date1), Null>> }

Scores == {Null, Some(5), Some(7)}
PercentGains == {Some(20), Some(40)}

RowsA == {[country_name |-> k[1], week |-> k[2], term |-> k[3], score |-> s] :
            k \in SampleKeys, s \in Scores}
RowsB == {[country_name |-> k[1], week |-> k[2], term |-> k[3], percent_gain |-> g] :
            k \in SampleKeys, g \in PercentGains}

SeqsUpTo(S, n) == UNION {[1..k -> S] : k \in 0..n}

Restrict(r, cols) == [c \in cols |-> r[c]]

\* tables with every column, and tables that lack one column
TablesOver(cols, rowset, n) ==
    {[columns |-> cols, rows |-> rs] : rs \in SeqsUpTo(rowset, n)}
    \cup UNION {{[columns |-> cols \ {c}, rows |-> rs] :
                    rs \in SeqsUpTo({Restrict(r, cols \ {c}) : r \in rowset},
                                    MaxRowsMissing)} : c \in cols}

-----------------------------------------------------------------------------
(* The state machine: a pipeline run *)

Init ==
    /\ \E a \in TablesOver(ColumnsA, RowsA, MaxTrendRows),
          b \in TablesOver(ColumnsB, RowsB, MaxRisingRows) :
          catalog = [international_top_terms |-> Some(a),
                     international_top_rising_terms |-> Some(b),
                     preprocessed_data |-> Null]
    /\ pipe = create_pipeline
    /\ pc = "ready"
    /\ calls = 0
    /\ itt = Null
    /\ itrt = Null
    /\ trends = Null
    /\ rising_trends = Null
    /\ result = Null
    /\ returned = Null
    /\ error = Null

\* the runner calls the next node's function on the datasets its inputs name
RunNode ==
    /\ pc = "ready"
    /\ calls < Len(pipe)
    /\ LET node == pipe[calls + 1]
       IN /\ itt' = catalog[node.inputs[1]]
          /\ itrt' = catalog[node.inputs[2]]
    /\ calls' = calls + 1
    /\ pc' = "trends"
    /\ trends' = Null
    /\ rising_trends' = Null
    /\ result' = Null
    /\ returned' = Null
    /\ UNCHANGED <<catalog, pipe, error>>

\* Variant: a missing column of itt is passed over and trends is left empty
BuildTrends_swallow ==
    /\ pc = "trends"
    /\ trends' = IF ColumnsA \subseteq Val(itt).columns
                 THEN Some(GroupMean(MutateMonth(FilterScoreNotNull(Val(itt).rows)),
                                     "score", "avg_score"))
                 ELSE Some(EmptyBag)
    /\ pc' = "rising_trends"
    /\ UNCHANGED <<catalog, pipe, calls, itt, itrt, rising_trends, result,
                   returned, error>>

\* nodes.py lines 6-10: a column that itt lacks fails the attribute access
BuildTrends ==
    /\ pc = "trends"
    /\ IF ColumnsA \subseteq Val(itt).columns
       THEN /\ trends' = Some(Trends(Val(itt)))
            /\ pc' = "rising_trends"
            /\ UNCHANGED error
       ELSE /\ error' = Some("AttributeError")
            /\ pc' = "raised"
            /\ UNCHANGED trends
    /\ UNCHANGED <<catalog, pipe, calls, itt, itrt, rising_trends, result, returned>>

\* nodes.py lines 12-16
BuildRisingTrends ==
    /\ pc = "rising_trends"
    /\ IF ColumnsB \subseteq Val(itrt).columns
       THEN /\ rising_trends' = Some(RisingTrends(Val(itrt)))
            /\ pc' = "join"
            /\ UNCHANGED error
       ELSE /\ error' = Some("AttributeError")
            /\ pc' = "raised"
            /\ UNCHANGED rising_trends
    /\ UNCHANGED <<catalog, pipe, calls, itt, itrt, trends, result, returned>>

\* nodes.py lines 18-31
JoinAndSelect ==
    /\ pc = "join"
    /\ result' = Some(Project(LeftJoin(Val(trends), Val(rising_trends))))
    /\ pc' = "to_pandas"
    /\ UNCHANGED <<catalog, pipe, calls, itt, itrt, trends, rising_trends,
                   returned, error>>

\* nodes.py line 33
ToPandas ==
    /\ pc = "to_pandas"
    /\ returned' = result
    /\ pc' = "returned"
    /\ UNCHANGED <<catalog, pipe, calls, itt, itrt, trends, rising_trends,
                   result, error>>

\* the runner binds the returned table to the node's output
SaveOutput ==
    /\ pc = "returned"
    /\ catalog' = [catalog EXCEPT ![pipe[calls].outputs] = returned]
    /\ pc' = IF calls < Len(pipe) THEN "ready" ELSE "done"
    /\ UNCHANGED <<pipe, calls, itt, itrt, trends, rising_trends, result,
                   returned, error>>

Next ==
    \/ RunNode
    \/ BuildTrends
    \/ BuildRisingTrends
    \/ JoinAndSelect
    \/ ToPandas
    \/ SaveOutput

Spec == Init /\ [][Next]_vars

-----------------------------------------------------------------------------
(* What the properties are stated over *)

\* the two datasets the run was given
InA == Val(catalog.international_top_terms)
InB == Val(catalog.international_top_rising_terms)

\* the table data_processing returned
Out == Val(returned)

MissingColumn == ~(ColumnsA \subseteq InA.columns) \/ ~(ColumnsB \subseteq InB.columns)

DigitVal(ch) == CHOOSE d \in 0..9 : Digits[d + 1] = ch

IsDigit(ch) == \E d \in 0..9 : Digits[d + 1] = ch

\* the <<year, month>> a week falls in
YearMonthOfWeek(w) == IF w = Null THEN Null ELSE Some(<<Val(w)[1], Val(w)[2]>>)

\* the <<year, month>> a text "YYYY-MM" denotes; <<0, 0>> for any other text
YearMonthOfText(m) ==
    IF m = Null THEN Null
    ELSE LET t == Val(m)
         IN IF /\ Len(t) = 7
               /\ t[5] = "-"
               /\ \A i \in {1, 2, 3, 4, 6, 7} : IsDigit(t[i])
            THEN Some(<<1000 * DigitVal(t[1]) + 100 * DigitVal(t[2])
                          + 10 * DigitVal(t[3]) + DigitVal(t[4]),
                        10 * DigitVal(t[6]) + DigitVal(t[7])>>)
            ELSE Some(<<0, 0>>)

\* (country_name, year-month, term) of an input row and of an aggregate or output row
KeyOfInput(r) == <<r.country_name, YearMonthOfWeek(r.week), r.term>>
KeyOfAggregate(r) == <<r.country_name, YearMonthOfText(r.month), r.term>>
KeyOfOutput(o) == <<o.country_name, YearMonthOfText(o.month), o.google_trend>>

HasNull(k) == k[1] = Null \/ k[2] = Null \/ k[3] = Null

\* the trendTable rows with a non-null score, and those of them in group k
ScoredA == {i \in 1..Len(InA.rows) : InA.rows[i].score # Null}
ScoredOf(k) == {i \in ScoredA : KeyOfInput(InA.rows[i]) = k}
RisingOf(k) == {i \in 1..Len(InB.rows) : KeyOfInput(InB.rows[i]) = k}

GroupsA == {KeyOfInput(InA.rows[i]) : i \in ScoredA}
GroupsB == {KeyOfInput(InB.rows[i]) : i \in 1..Len(InB.rows)}

\* how many output rows carry key k
OutRowsOf(k) == SumFn({o \in BagToSet(Out) : KeyOfOutput(o) = k}, Out)

\* avg is the fraction total / count
IsMean(avg, total, count) ==
    /\ avg # Null
    /\ count > 0
    /\ Val(avg).num * count = Val(avg).den * total

ScoreTotal(S) == SumFn(S, [i \in S |-> Val(InA.rows[i].score)])
GainTotal(S) == SumFn(S, [i \in S |-> Val(InB.rows[i].percent_gain)])

-----------------------------------------------------------------------------
(* Properties *)

\* C1: the returned table has exactly one row per (country_name, month, term)
\* group of the trendTable rows with non-null score: as many rows as there are
\* groups (and as the trends aggregate has), every group exactly once, and no
\* row whose key is not such a group.
C1_LeftJoinCompleteness ==
    returned # Null =>
        /\ BagCardinality(Out) = Cardinality(GroupsA)
        /\ BagCardinality(Out) = BagCardinality(Val(trends))
        /\ \A k \in GroupsA : OutRowsOf(k) = 1
        /\ \A o \in BagToSet(Out) : KeyOfOutput(o) \in GroupsA

C1_Witness ==
    /\ returned # Null
    /\ Cardinality(GroupsA) = 2
    /\ GroupsB \ GroupsA # {}
    /\ \E k \in GroupsA \cap GroupsB : ~HasNull(k)

\* C2: every returned row's avg_score is the mean of score over exactly the
\* trendTable rows of its key with non-null score, and a key all of whose rows
\* have a null score has no returned row.
C2_AvgScore ==
    returned # Null =>
        /\ \A o \in BagToSet(Out) :
              IsMean(o.avg_score, ScoreTotal(ScoredOf(KeyOfOutput(o))),
                     Cardinality(ScoredOf(KeyOfOutput(o))))
        /\ \A i \in 1..Len(InA.rows) :
              ScoredOf(KeyOfInput(InA.rows[i])) = {}
                  => OutRowsOf(KeyOfInput(InA.rows[i])) = 0

C2_Witness ==
    /\ returned # Null
    /\ \E i, j \in 1..Len(InA.rows) :
          /\ InA.rows[i].score = Null
          /\ InA.rows[j].score # Null
          /\ KeyOfInput(InA.rows[i]) = KeyOfInput(InA.rows[j])
          /\ InA.rows[i].week # InA.rows[j].week

\* C3: a returned row whose key (no part of it null) is also the key of
\* risingTrendTable rows has as avg_percent_gain the mean of percent_gain over
\* all those rows; the key's month is the year and month of week in each table.
C3_AvgPercentGain ==
    returned # Null =>
        \A o \in BagToSet(Out) :
            LET k == KeyOfOutput(o)
            IN (~HasNull(k) /\ RisingOf(k) # {})
                  => IsMean(o.avg_percent_gain, GainTotal(RisingOf(k)),
                            Cardinality(RisingOf(k)))

C3_Witness ==
    /\ returned # Null
    /\ \E o \in BagToSet(Out) :
          LET k == KeyOfOutput(o)
          IN /\ ~HasNull(k)
             /\ Cardinality(RisingOf(k)) = 2
             /\ \E i, j \in RisingOf(k) :
                   InB.rows[i].percent_gain # InB.rows[j].percent_gain
             /\ \A i \in RisingOf(k), j \in ScoredOf(k) :
                   InB.rows[i].week # InA.rows[j].week

\* C4: a group of trendTable whose key no risingTrendTable row has keeps its
\* row, with its avg_score, and the row's avg_percent_gain is null.
C4_Unmatched ==
    returned # Null =>
        \A k \in GroupsA \ GroupsB :
            /\ OutRowsOf(k) = 1
            /\ \A o \in BagToSet(Out) :
                  KeyOfOutput(o) = k
                      => /\ o.avg_percent_gain = Null
                         /\ IsMean(o.avg_score, ScoreTotal(ScoredOf(k)),
                                   Cardinality(ScoredOf(k)))

C4_Witness ==
    /\ returned # Null
    /\ InB.rows # <<>>
    /\ \E k \in GroupsA \ GroupsB : ~HasNull(k)
    /\ GroupsA \cap GroupsB # {}

\* C5 as stated: whenever trendTable has no row with a non-null score, and also
\* whenever risingTrendTable has no row, the returned table is empty.
C5_EmptyWhenEitherInputEmpty ==
    (returned # Null /\ (ScoredA = {} \/ InB.rows = <<>>)) => Out = EmptyBag

\* C5, amended: with every required column present, an input with no row after
\* filtering raises no error; the returned table is empty when trendTable has
\* no row with a non-null score, and when risingTrendTable has no row it has one
\* row per trendTable group, each with a null avg_percent_gain.
C5_EmptyInputs ==
    (~MissingColumn /\ (ScoredA = {} \/ InB.rows = <<>>)) =>
        /\ error = Null
        /\ pc # "raised"
        /\ returned # Null =>
              /\ ScoredA = {} => Out = EmptyBag
              /\ InB.rows = <<>> =>
                    /\ BagCardinality(Out) = Cardinality(GroupsA)
                    /\ \A k \in GroupsA : OutRowsOf(k) = 1
                    /\ \A o \in BagToSet(Out) : o.avg_percent_gain = Null

C5_Witness ==
    /\ pc = "done"
    /\ ScoredA = {}
    /\ Len(InA.rows) = 2
    /\ InB.rows # <<>>
    /\ Out = EmptyBag

\* C6 as stated: a run on an input that lacks a required column fails with
\* SchemaError.
C6_FailsWithSchemaError ==
    (MissingColumn /\ pc = "raised") => error = Some("SchemaError")

\* C6, amended: a run on an input that lacks a required column never gets past
\* building the two aggregates: it returns no table and binds nothing to the
\* output, and the error it ends with is the AttributeError of the failed
\* column access; no other run raises.
C6_MissingColumnFails ==
    /\ MissingColumn =>
          /\ pc \in {"ready", "trends", "rising_trends", "raised"}
          /\ pc = "rising_trends" => ColumnsA \subseteq InA.columns
          /\ result = Null
          /\ returned = Null
          /\ catalog.preprocessed_data = Null
          /\ pc = "raised" => error = Some("AttributeError")
    /\ (pc = "raised" \/ error # Null) => (MissingColumn /\ pc = "raised")

C6_Witness ==
    /\ pc = "raised"
    /\ ColumnsA \subseteq InA.columns
    /\ "percent_gain" \notin InB.columns
    /\ trends # Null
    /\ InA.rows # <<>>

\* C7: the pipeline has exactly one node, which calls data_processing with the
\* dataset of slot international_top_terms as itt (the table filtered on score)
\* and that of international_top_rising_terms as itrt, and the returned table is
\* bound to slot preprocessed_data; a run calls the function exactly once.
C7_PipelineWiring ==
    /\ Len(pipe) = 1
    /\ pipe[1].func = "data_processing"
    /\ calls = IF pc = "ready" THEN 0 ELSE 1
    /\ pc # "ready" =>
          /\ itt = catalog.international_top_terms
          /\ itrt = catalog.international_top_rising_terms
    /\ trends # Null => Val(trends) = Trends(InA)
    /\ rising_trends # Null => Val(rising_trends) = RisingTrends(InB)
    /\ catalog.preprocessed_data = IF pc = "done" THEN returned ELSE Null
    /\ pc = "done" => returned # Null

C7_Witness ==
    /\ pc = "done"
    /\ calls = 1
    /\ catalog.preprocessed_data # Null
    /\ Val(catalog.preprocessed_data) # EmptyBag
    /\ \E o \in BagToSet(Out) : o.avg_percent_gain # Null

UniqueKeys(B, Key(_)) ==
    /\ \A r \in BagToSet(B) : CopiesIn(r, B) = 1
    /\ \A r1, r2 \in BagToSet(B) : Key(r1) = Key(r2) => r1 = r2

\* C8: no two rows of trends, of rising_trends or of the returned table share a
\* (country_name, month, term) key, and the join turns no trends row into
\* several rows.
C8_UniqueKeys ==
    /\ trends # Null => UniqueKeys(Val(trends), KeyOfAggregate)
    /\ rising_trends # Null => UniqueKeys(Val(rising_trends), KeyOfAggregate)
    /\ result # Null =>
          /\ UniqueKeys(Val(result), KeyOfOutput)
          /\ BagCardinality(Val(result)) = BagCardinality(Val(trends))
    /\ returned # Null => UniqueKeys(Out, KeyOfOutput)

C8_Witness ==
    /\ returned # Null
    /\ \E k \in GroupsA \cap GroupsB :
          /\ Cardinality(ScoredOf(k)) = 2
          /\ Cardinality(RisingOf(k)) = 2
          /\ OutRowsOf(k) = 1

Reorderings(s) ==
    {[i \in 1..Len(s) |-> s[f[i]]] :
        f \in {g \in [1..Len(s) -> 1..Len(s)] :
                  \A i, j \in 1..Len(s) : g[i] = g[j] => i = j}}

\* C9: the returned table, as a collection of rows, is the one data_processing
\* yields on any reordering of trendTable's rows and of risingTrendTable's rows.
C9_OrderIndependent ==
    returned # Null =>
        \A ra \in Reorderings(InA.rows), rb \in Reorderings(InB.rows) :
            data_processing([InA EXCEPT !.rows = ra], [InB EXCEPT !.rows = rb]) = Out

C9_Witness ==
    /\ returned # Null
    /\ \E ra \in Reorderings(InA.rows) : ra # InA.rows
    /\ \E rb \in Reorderings(InB.rows) : rb # InB.rows
    /\ \E k \in GroupsA \cap GroupsB :
          /\ ~HasNull(k)
          /\ \E i, j \in ScoredOf(k) : InA.rows[i].score # InA.rows[j].score
          /\ \E i, j \in RisingOf(k) : InB.rows[i].percent_gain # InB.rows[j].percent_gain

\* C10: a trendTable group with a null country_name, month or term has exactly
\* one returned row and its avg_percent_gain is null, also when risingTrendTable
\* has rows with the very same key.
C10_NullKeyNoMatch ==
    returned # Null =>
        \A k \in GroupsA :
            HasNull(k) =>
                /\ OutRowsOf(k) = 1
                /\ \A o \in BagToSet(Out) :
                      KeyOfOutput(o) = k => o.avg_percent_gain = Null

C10_Witness ==
    /\ returned # Null
    /\ \E k1, k2 \in GroupsA \cap GroupsB :
          /\ k1[2] = Null
          /\ ~HasNull(k2)
    /\ BagCardinality(Out) = 2

====
